---------------------------- MODULE Spec2Model ----------------------------
(***************************************************************************)
(* Model of src/uber_clone_optimized.py: the pricing engine                *)
(* (OptimizedPricingEngine), the input validators (FastInputValidator),    *)
(* the BookingRequest value object and the console session                 *)
(* (UberSKOptimizedApp.run).                                               *)
(*                                                                         *)
(* Text is a sequence of one-character strings.  A Python float is a       *)
(* record [kind, m, k]: kind "num" is the exact decimal m / 10^k, kind     *)
(* "nan" is NaN and kind "inf" is an infinity of sign m.  Binary rounding   *)
(* of finite values is not modelled: finite arithmetic is exact.           *)
(***************************************************************************)
EXTENDS Integers, Sequences, FiniteSets

VARIABLES
    \* ---- UberSKOptimizedApp.run: the console session
    pc,                 \* position of run() in the code
    exc,                \* the exception in flight / handled: [type, at]
    username,           \* locals of _collect_booking_details
    destination,
    distance,
    time_str,
    booking_request,    \* BookingRequest built by Collect, or None
    cab_options,        \* list of CabOption built by get_all_options
    selected_option,    \* CabOption returned by _get_cab_choice, or None
    confirm,            \* value of _confirm_booking: "none", "True", "False"
    line,               \* the line input() returned last, or None
    output,             \* what has been written to the console, as event tags
    \* ---- OptimizedPricingEngine: the two lru_cache stores
    price_cache,        \* calculate_price, maxsize 128, LRU first
    msg_cache,          \* get_surcharge_messages, maxsize 64, LRU first
    \* ---- a direct caller of one function (pure-function specifications)
    call,               \* [fn, args, result] of the last direct call
    args,               \* the inputs drawn for the direct calls
    cursor,             \* number of quotes a library client has requested
    recalls             \* number of repeated requests it has made

vars == << pc, exc, username, destination, distance, time_str, booking_request,
           cab_options, selected_option, confirm, line, output,
           price_cache, msg_cache, call, args, cursor, recalls >>

sessionVars == << pc, exc, username, destination, distance, time_str,
                  booking_request, cab_options, selected_option, confirm,
                  line, output >>

None == [none |-> TRUE]

-----------------------------------------------------------------------------
(* Text: str.strip, str.split(':'), str.lower, int(), float()              *)

DigitChars == <<"0", "1", "2", "3", "4", "5", "6", "7", "8", "9">>

IsDigit(c) == \E i \in 1..10 : DigitChars[i] = c

DigitVal(c) == (CHOOSE i \in 1..10 : DigitChars[i] = c) - 1

IsSpace(c) == c = " "

SetMin(S) == CHOOSE x \in S : \A y \in S : x <= y

SetMax(S) == CHOOSE x \in S : \A y \in S : x >= y

\* str.strip(): leading and trailing whitespace removed (of the whitespace
\* characters the texts of the model hold only the blank)
strip(s) ==
    LET keep == {i \in 1..Len(s) : ~IsSpace(s[i])}
    IN  IF keep = {} THEN <<>> ELSE SubSeq(s, SetMin(keep), SetMax(keep))

\* str.lower(), on the letters the inputs use
LowerChar(c) ==
    CASE c = "Y" -> "y" [] c = "E" -> "e" [] c = "S" -> "s" [] c = "N" -> "n"
      [] c = "O" -> "o" [] c = "A" -> "a" [] c = "I" -> "i" [] c = "F" -> "f"
      [] OTHER -> c

lower(s) == [i \in 1..Len(s) |-> LowerChar(s[i])]

\* str.split(':'): the pieces between the colons, empty pieces included
RECURSIVE split(_)
split(s) ==
    LET at == {i \in 1..Len(s) : s[i] = ":"}
    IN  IF at = {} THEN <<s>>
        ELSE <<SubSeq(s, 1, SetMin(at) - 1)>>
                 \o split(SubSeq(s, SetMin(at) + 1, Len(s)))

\* value of a run of decimal digits, most significant first
RECURSIVE DigitsValue(_)
DigitsValue(s) ==
    IF s = <<>> THEN 0
    ELSE 10 * DigitsValue(SubSeq(s, 1, Len(s) - 1)) + DigitVal(s[Len(s)])

AllDigits(s) == \A i \in 1..Len(s) : IsDigit(s[i])

\* int(text): optional surrounding whitespace, optional sign, digits.
\* [ok |-> FALSE] stands for ValueError.  The texts of the model hold no
\* underscore and no digit outside 0-9, which int() would also take.
int(s) ==
    LET t    == strip(s)
        sgn  == Len(t) > 0 /\ t[1] \in {"+", "-"}
        body == IF sgn THEN SubSeq(t, 2, Len(t)) ELSE t
    IN  IF Len(body) > 0 /\ AllDigits(body)
        THEN [ok |-> TRUE,
              val |-> IF sgn /\ t[1] = "-" THEN 0 - DigitsValue(body)
                      ELSE DigitsValue(body)]
        ELSE [ok |-> FALSE, val |-> 0]

\* the finite float m / 10^k; a float has one representation of each value
RECURSIVE Num(_, _)
Num(m, k) ==
    IF k > 0 /\ m % 10 = 0 THEN Num(m \div 10, k - 1)
    ELSE [kind |-> "num", m |-> m, k |-> k]

NaN == [kind |-> "nan", m |-> 0, k |-> 0]

Inf(sign) == [kind |-> "inf", m |-> sign, k |-> 0]

\* float(text): optional whitespace and sign, then nan / inf / infinity in any
\* case, or digits with at most one point and at least one digit.  The texts
\* of the model hold no exponent and no underscore, which float() also takes.
float(s) ==
    LET t    == strip(s)
        sgn  == Len(t) > 0 /\ t[1] \in {"+", "-"}
        neg  == sgn /\ t[1] = "-"
        body == IF sgn THEN SubSeq(t, 2, Len(t)) ELSE t
        low  == lower(body)
        dots == {i \in 1..Len(body) : body[i] = "."}
        dot  == IF dots = {} THEN Len(body) + 1 ELSE SetMin(dots)
        ip   == SubSeq(body, 1, dot - 1)
        fp   == SubSeq(body, dot + 1, Len(body))
        mag  == DigitsValue(ip \o fp)
    IN  IF low = <<"n", "a", "n">> THEN [ok |-> TRUE, val |-> NaN]
        ELSE IF low \in {<<"i", "n", "f">>,
                         <<"i", "n", "f", "i", "n", "i", "t", "y">>}
        THEN [ok |-> TRUE, val |-> Inf(IF neg THEN 0 - 1 ELSE 1)]
        ELSE IF /\ Cardinality(dots) <= 1
                /\ AllDigits(ip) /\ AllDigits(fp)
                /\ Len(ip) + Len(fp) > 0
        THEN [ok |-> TRUE,
              val |-> Num(IF neg THEN 0 - mag ELSE mag, Len(fp))]
        ELSE [ok |-> FALSE, val |-> NaN]

-----------------------------------------------------------------------------
(* float arithmetic and comparison                                         *)

RECURSIVE Pow10(_)
Pow10(k) == IF k = 0 THEN 1 ELSE 10 * Pow10(k - 1)

Sign(n) == IF n > 0 THEN 1 ELSE IF n < 0 THEN 0 - 1 ELSE 0

\* x <= y
FLe(x, y) ==
    IF x.kind = "nan" \/ y.kind = "nan" THEN FALSE
    ELSE IF x.kind = "inf" THEN x.m < 0 \/ (y.kind = "inf" /\ y.m > 0)
    ELSE IF y.kind = "inf" THEN y.m > 0
    ELSE LET k == IF x.k >= y.k THEN x.k ELSE y.k
         IN  x.m * Pow10(k - x.k) <= y.m * Pow10(k - y.k)

\* x > y
FGt(x, y) ==
    IF x.kind = "nan" \/ y.kind = "nan" THEN FALSE ELSE ~FLe(x, y)

\* x * y
FMul(x, y) ==
    IF x.kind = "nan" \/ y.kind = "nan" THEN NaN
    ELSE IF x.kind = "inf" \/ y.kind = "inf"
    THEN IF Sign(x.m) * Sign(y.m) = 0 THEN NaN
         ELSE Inf(Sign(x.m) * Sign(y.m))
    ELSE Num(x.m * y.m, x.k + y.k)

\* x + y
FAdd(x, y) ==
    IF x.kind = "nan" \/ y.kind = "nan" THEN NaN
    ELSE IF x.kind = "inf" /\ y.kind = "inf"
    THEN IF x.m = y.m THEN x ELSE NaN
    ELSE IF x.kind = "inf" THEN x
    ELSE IF y.kind = "inf" THEN y
    ELSE LET k == IF x.k >= y.k THEN x.k ELSE y.k
         IN  Num(x.m * Pow10(k - x.k) + y.m * Pow10(k - y.k), k)

Zero == Num(0, 0)

One == Num(1, 0)

-----------------------------------------------------------------------------
(* CabType, SurchargeType, PricingConstants                                *)

\* class CabType(Enum), in declaration order
CabType ==
    << [name |-> "UBER_GO", display_name |-> "Uber Go",
        base_fare |-> Num(50, 0), per_km_rate |-> Num(12, 0)],
       [name |-> "UBER_SEDAN", display_name |-> "Uber Sedan",
        base_fare |-> Num(80, 0), per_km_rate |-> Num(18, 0)],
       [name |-> "UBER_XL", display_name |-> "Uber XL",
        base_fare |-> Num(120, 0), per_km_rate |-> Num(25, 0)] >>

CabTypes == {CabType[i] : i \in 1..Len(CabType)}

\* SurchargeType with OUTSTATION declared on the base fare
SurchargeType_OutstationOnBase ==
    << [name |-> "RUSH_HOUR", code |-> "rush", multiplier |-> Num(15, 2),
        applies_to |-> "per_km", message |-> "peak hours"],
       [name |-> "MIDNIGHT", code |-> "midnight", multiplier |-> Num(15, 2),
        applies_to |-> "base_fare", message |-> "late night travel"],
       [name |-> "OUTSTATION", code |-> "outstation", multiplier |-> Num(14, 2),
        applies_to |-> "base_fare", message |-> "outstation location"] >>

\* SurchargeType with the sign of the OUTSTATION multiplier wrong
SurchargeType_OutstationDiscount ==
    << [name |-> "RUSH_HOUR", code |-> "rush", multiplier |-> Num(15, 2),
        applies_to |-> "per_km", message |-> "peak hours"],
       [name |-> "MIDNIGHT", code |-> "midnight", multiplier |-> Num(15, 2),
        applies_to |-> "base_fare", message |-> "late night travel"],
       [name |-> "OUTSTATION", code |-> "outstation",
        multiplier |-> Num(0 - 14, 2),
        applies_to |-> "per_km", message |-> "outstation location"] >>

\* class SurchargeType(Enum), in declaration order; the message is named by
\* its content
SurchargeType ==
    << [name |-> "RUSH_HOUR", code |-> "rush", multiplier |-> Num(15, 2),
        applies_to |-> "per_km", message |-> "peak hours"],
       [name |-> "MIDNIGHT", code |-> "midnight", multiplier |-> Num(15, 2),
        applies_to |-> "base_fare", message |-> "late night travel"],
       [name |-> "OUTSTATION", code |-> "outstation", multiplier |-> Num(14, 2),
        applies_to |-> "per_km", message |-> "outstation location"] >>

OUTSTATION_THRESHOLD == Num(200, 0)

RUSH_HOURS == {<<8, 9>>, <<17, 18>>}

\* frozenset(range(23, 24)) | frozenset(range(0, 5))
MIDNIGHT_HOURS == (23..(24 - 1)) \cup (0..(5 - 1))

-----------------------------------------------------------------------------
(* OptimizedPricingEngine                                                  *)

\* the lookup with range(start, end) in place of range(start, end + 1)
surcharge_condition_ExclusiveEnd(code, h, d) ==
    CASE code = "rush" ->
             \E p \in RUSH_HOURS : h \in p[1]..(p[2] - 1)
      [] code = "midnight" -> h \in MIDNIGHT_HOURS
      [] code = "outstation" -> FGt(d, OUTSTATION_THRESHOLD)

\* _build_surcharge_lookup: the condition stored under `code`, applied to
\* (h, d)
surcharge_condition(code, h, d) ==
    CASE code = "rush" ->
             \E p \in RUSH_HOURS : h \in p[1]..((p[2] + 1) - 1)
      [] code = "midnight" -> h \in MIDNIGHT_HOURS
      [] code = "outstation" -> FGt(d, OUTSTATION_THRESHOLD)

\* the loop of calculate_price from surcharge number i on: the pair
\* <<base_fare, per_km_rate>> after the remaining surcharges
RECURSIVE apply_surcharges(_, _, _, _, _)
apply_surcharges(i, base_fare, per_km_rate, distance_km, hour) ==
    IF i > Len(SurchargeType) THEN <<base_fare, per_km_rate>>
    ELSE LET surcharge == SurchargeType[i]
             factor    == FAdd(One, surcharge.multiplier)
         IN  IF surcharge_condition(surcharge.code, hour, distance_km)
             THEN IF surcharge.applies_to = "base_fare"
                  THEN apply_surcharges(i + 1, FMul(base_fare, factor),
                                        per_km_rate, distance_km, hour)
                  ELSE apply_surcharges(i + 1, base_fare,
                                        FMul(per_km_rate, factor),
                                        distance_km, hour)
             ELSE apply_surcharges(i + 1, base_fare, per_km_rate,
                                   distance_km, hour)

\* the body of calculate_price (what a cache miss computes)
calculate_price_uncached(cab_type, distance_km, hour) ==
    LET adjusted == apply_surcharges(1, cab_type.base_fare,
                                     cab_type.per_km_rate, distance_km, hour)
    IN  FAdd(adjusted[1], FMul(distance_km, adjusted[2]))

\* the body of get_surcharge_messages from surcharge number i on
RECURSIVE collect_messages(_, _, _)
collect_messages(i, distance_km, hour) ==
    IF i > Len(SurchargeType) THEN <<>>
    ELSE (IF surcharge_condition(SurchargeType[i].code, hour, distance_km)
          THEN <<SurchargeType[i].message>> ELSE <<>>)
         \o collect_messages(i + 1, distance_km, hour)

get_surcharge_messages_uncached(distance_km, hour) ==
    collect_messages(1, distance_km, hour)

\* a cache key that leaves the hour out
price_key_NoHour(cab_type, distance_km, hour) ==
    <<cab_type.name, distance_km>>

\* functools.lru_cache: the key under which a call is stored
price_key(cab_type, distance_km, hour) ==
    <<cab_type.name, distance_km, hour>>

msg_key(distance_km, hour) == <<distance_km, hour>>

PRICE_CACHE_MAXSIZE == 128

MSG_CACHE_MAXSIZE == 64

\* functools.lru_cache around a function: `value` is what the function
\* computes for `key`.  A hit returns the stored value and makes the entry
\* the most recently used; a miss stores the value and, beyond maxsize,
\* drops the least recently used entry.
lru_call(cache, maxsize, key, value) ==
    LET hits == {i \in 1..Len(cache) : cache[i].key = key}
    IN  IF hits # {}
        THEN LET i == CHOOSE j \in hits : TRUE
             IN  [result |-> cache[i].value,
                  cache  |-> SubSeq(cache, 1, i - 1)
                                \o SubSeq(cache, i + 1, Len(cache))
                                \o <<cache[i]>>]
        ELSE LET added == Append(cache, [key |-> key, value |-> value])
             IN  [result |-> value,
                  cache  |-> IF Len(added) > maxsize THEN Tail(added)
                             ELSE added]

\* calculate_price as decorated: [result, cache]
calculate_price(cache, cab_type, distance_km, hour) ==
    lru_call(cache, PRICE_CACHE_MAXSIZE,
             price_key(cab_type, distance_km, hour),
             calculate_price_uncached(cab_type, distance_km, hour))

\* get_surcharge_messages as decorated: [result, cache]
get_surcharge_messages(cache, distance_km, hour) ==
    lru_call(cache, MSG_CACHE_MAXSIZE, msg_key(distance_km, hour),
             get_surcharge_messages_uncached(distance_km, hour))

\* get_all_options from cab type number i on: [result, cache], the result a
\* list of CabOption
RECURSIVE all_options_from(_, _, _, _)
all_options_from(i, cache, distance_km, hour) ==
    IF i > Len(CabType) THEN [result |-> <<>>, cache |-> cache]
    ELSE LET one  == calculate_price(cache, CabType[i], distance_km, hour)
             rest == all_options_from(i + 1, one.cache, distance_km, hour)
         IN  [result |-> <<[cab_type |-> CabType[i].name,
                            price |-> one.result]>> \o rest.result,
              cache  |-> rest.cache]

get_all_options(cache, distance_km, hour) ==
    all_options_from(1, cache, distance_km, hour)

-----------------------------------------------------------------------------
(* FastInputValidator                                                      *)

Return(v) == [ok |-> TRUE, value |-> v]

Raise(type, message) == [ok |-> FALSE, type |-> type, message |-> message]

\* try: <body> except ValueError: raise ValueError(message)
except_ValueError(body, message) ==
    IF ~body.ok /\ body.type = "ValueError"
    THEN Raise("ValueError", message) ELSE body

\* try: <body> except (ValueError, TypeError): raise ValueError(message)
except_ValueError_TypeError(body, message) ==
    IF ~body.ok /\ body.type \in {"ValueError", "TypeError"}
    THEN Raise("ValueError", message) ELSE body

validate_non_empty(value) == strip(value) # <<>>

validate_distance(text) ==
    LET dist == float(text)
        body == IF ~dist.ok
                THEN Raise("ValueError", "could not convert string to float")
                ELSE IF FLe(dist.val, Zero)
                THEN Raise("ValueError", "Distance must be positive")
                ELSE Return(dist.val)
    IN  except_ValueError(body, "Invalid distance format")

\* str(n) for n >= 0
RECURSIVE str(_)
str(n) ==
    IF n < 10 THEN <<DigitChars[n + 1]>>
    ELSE str(n \div 10) \o <<DigitChars[(n % 10) + 1]>>

\* f"{n}": no padding
format_02d_Unpadded(n) == str(n)

\* f"{n:02d}" for n >= 0: str(n) padded on the left with zeros to width 2
format_02d(n) ==
    IF Len(str(n)) < 2 THEN <<"0">> \o str(n) ELSE str(n)

\* hour, minute = map(int, parts): ValueError unless there are exactly two
\* parts and int() takes both
unpack_two_ints(parts) ==
    IF Len(parts) # 2
    THEN Raise("ValueError", "wrong number of values to unpack")
    ELSE IF ~int(parts[1]).ok \/ ~int(parts[2]).ok
    THEN Raise("ValueError", "invalid literal for int()")
    ELSE Return(<<int(parts[1]).val, int(parts[2]).val>>)

hour_in_range(hour) == 0 <= hour /\ hour <= 23

minute_in_range(minute) == 0 <= minute /\ minute <= 59

validate_time(text) ==
    LET hm   == unpack_two_ints(split(strip(text)))
        body == IF ~hm.ok THEN hm
                ELSE IF ~(hour_in_range(hm.value[1])
                          /\ minute_in_range(hm.value[2]))
                THEN Raise("ValueError",
                           "Hour must be 0-23, minute must be 0-59")
                ELSE Return(format_02d(hm.value[1]) \o <<":">>
                               \o format_02d(hm.value[2]))
    IN  except_ValueError_TypeError(body, "Time must be in HH:MM format")

-----------------------------------------------------------------------------
(* BookingRequest                                                          *)

\* _validate_time_format: hour, minute = map(int, booking_time.split(':'))
validate_time_format(booking_time) ==
    LET hm   == unpack_two_ints(split(booking_time))
        body == IF ~hm.ok THEN hm
                ELSE IF ~(hour_in_range(hm.value[1])
                          /\ minute_in_range(hm.value[2]))
                THEN Raise("ValueError", "Invalid time range")
                ELSE Return(None)
    IN  except_ValueError_TypeError(body, "Time must be in HH:MM format")

\* BookingRequest(...): the dataclass constructor followed by __post_init__
BookingRequest(u, dest, distance_km, booking_time) ==
    IF FLe(distance_km, Zero)
    THEN Raise("ValueError", "Distance must be positive")
    ELSE IF strip(u) = <<>>
    THEN Raise("ValueError", "Username cannot be empty")
    ELSE IF strip(dest) = <<>>
    THEN Raise("ValueError", "Destination cannot be empty")
    ELSE IF ~validate_time_format(booking_time).ok
    THEN validate_time_format(booking_time)
    ELSE Return([username |-> u, destination |-> dest,
                 distance_km |-> distance_km, booking_time |-> booking_time])

\* BookingRequest.hour
hour_of(request) == int(split(request.booking_time)[1]).val

-----------------------------------------------------------------------------
(* The idle values of the variables a specification does not use           *)

P(step, of) == [step |-> step, of |-> of]

SessionIdle ==
    /\ pc = P("idle", "run")
    /\ exc = None
    /\ username = None
    /\ destination = None
    /\ distance = None
    /\ time_str = None
    /\ booking_request = None
    /\ cab_options = <<>>
    /\ selected_option = None
    /\ confirm = "none"
    /\ line = None
    /\ output = <<>>

NoCall == [fn |-> "none"]

-----------------------------------------------------------------------------
(* SpecPrice: a client calling the engine's three methods directly, at a   *)
(* fixed hour                                                              *)

MaxCalls == 2

Hours == 0..23

\* the distances the client asks about: zero, 199.99, 200 and 200.01 round
\* the threshold, 250, and the two non-finite values validate_distance lets by
PriceDistances ==
    {Zero, Num(19999, 2), Num(200, 0), Num(20001, 2), Num(250, 0),
     Inf(1), NaN}

InitPrice ==
    /\ SessionIdle
    /\ price_cache = <<>>
    /\ msg_cache = <<>>
    /\ call = NoCall
    /\ args \in [hour : Hours]
    /\ cursor = 0
    /\ recalls = 0

CallCalculatePrice(cab_type, d) ==
    LET r == calculate_price(price_cache, cab_type, d, args.hour)
    IN  /\ cursor < MaxCalls
        /\ cursor' = cursor + 1
        /\ price_cache' = r.cache
        /\ call' = [fn |-> "calculate_price", cab_type |-> cab_type.name,
                    distance_km |-> d, hour |-> args.hour,
                    result |-> r.result]
        /\ UNCHANGED <<sessionVars, msg_cache, args, recalls>>

CallGetAllOptions(d) ==
    LET r == get_all_options(price_cache, d, args.hour)
    IN  /\ cursor < MaxCalls
        /\ cursor' = cursor + 1
        /\ price_cache' = r.cache
        /\ call' = [fn |-> "get_all_options", distance_km |-> d,
                    hour |-> args.hour, result |-> r.result]
        /\ UNCHANGED <<sessionVars, msg_cache, args, recalls>>

CallGetSurchargeMessages(d) ==
    LET r == get_surcharge_messages(msg_cache, d, args.hour)
    IN  /\ cursor < MaxCalls
        /\ cursor' = cursor + 1
        /\ msg_cache' = r.cache
        /\ call' = [fn |-> "get_surcharge_messages", distance_km |-> d,
                    hour |-> args.hour, result |-> r.result]
        /\ UNCHANGED <<sessionVars, price_cache, args, recalls>>

NextPrice ==
    \/ \E cab_type \in CabTypes, d \in PriceDistances :
           CallCalculatePrice(cab_type, d)
    \/ \E d \in PriceDistances : CallGetAllOptions(d)
    \/ \E d \in PriceDistances : CallGetSurchargeMessages(d)

SpecPrice == InitPrice /\ [][NextPrice]_vars

-----------------------------------------------------------------------------
(* SpecValidate: a client calling one validator on one line of text        *)

MaxLen == 3

ValidatorAlphabet == {"0", "2", "5", "9", ":", ".", "-", " ", "a", "n"}

\* the lines the spec names, and special floats
ExtraTexts ==
    { <<"1", "2", ".", "5">>, <<"2", "4", ":", "0", "0">>,
      <<"2", "3", ":", "6", "0">>, <<"2", "3", ":", "5", "9">>,
      <<"2", "0", "0", ".", "0", "1">>, <<"i", "n", "f">>,
      <<"-", "i", "n", "f">>, <<"N", "a", "N">>, <<"+", "9", ":", "0", "5">>,
      <<"1", ":", "2", ":", "3">>, <<" ", "9", " ", ":", " ", "5", " ">> }

ValidatorTexts ==
    UNION {[1..n -> ValidatorAlphabet] : n \in 0..MaxLen} \cup ExtraTexts

InitValidate ==
    /\ SessionIdle
    /\ price_cache = <<>>
    /\ msg_cache = <<>>
    /\ call = NoCall
    /\ args \in [text : ValidatorTexts]
    /\ cursor = 0
    /\ recalls = 0

CallValidateNonEmpty ==
    /\ call' = [fn |-> "validate_non_empty", text |-> args.text,
                result |-> Return(validate_non_empty(args.text))]
    /\ UNCHANGED <<sessionVars, price_cache, msg_cache, args, cursor, recalls>>

CallValidateDistance ==
    /\ call' = [fn |-> "validate_distance", text |-> args.text,
                result |-> validate_distance(args.text)]
    /\ UNCHANGED <<sessionVars, price_cache, msg_cache, args, cursor, recalls>>

CallValidateTime ==
    /\ call' = [fn |-> "validate_time", text |-> args.text,
                result |-> validate_time(args.text)]
    /\ UNCHANGED <<sessionVars, price_cache, msg_cache, args, cursor, recalls>>

NextValidate ==
    \/ CallValidateNonEmpty
    \/ CallValidateDistance
    \/ CallValidateTime

SpecValidate == InitValidate /\ [][NextValidate]_vars

-----------------------------------------------------------------------------
(* Spec: UberSKOptimizedApp.run, one console session                       *)

MaxRetries == 2

Ev(event, detail) == [event |-> event, detail |-> detail]

\* the lines a user may type at each prompt
Lines(name) ==
    CASE name = "username" -> { <<"b", "o", "b">>, <<" ">>, <<>> }
      [] name = "destination" -> { <<" ", "x", " ">>, <<>> }
      [] name = "distance" ->
             { <<"1", "2", ".", "5">>, <<"2", "5", "0">>, <<"n", "a", "n">>,
               <<"0">>, <<"-", "5">>, <<"a">> }
      [] name = "time" ->
             { <<"9", ":", "5">>, <<"2", "3", ":", "3", "0">>,
               <<"2", "4", ":", "0", "0">>, <<"2", "3", ":", "6", "0">>,
               <<"9">> }
      [] name = "choice" -> { <<"1">>, <<"3">>, <<"0">>, <<"4">>, <<"x">> }
      [] name = "confirm" ->
             { <<"y">>, <<"Y", "E", "S">>, <<"n">>, <<"N", "o">>,
               <<"o", "k">>, <<>> }

CollectPrompts == <<"username", "destination", "distance", "time">>

\* the validator_func _collect_booking_details passes for each prompt
validator_func(name, x) ==
    CASE name = "username" ->
             IF validate_non_empty(x) THEN Return(x)
             ELSE Raise("ValueError", "Username cannot be empty")
      [] name = "destination" ->
             IF validate_non_empty(x) THEN Return(x)
             ELSE Raise("ValueError", "Destination cannot be empty")
      [] name = "distance" -> validate_distance(x)
      [] name = "time" -> validate_time(x)

\* where _collect_booking_details goes after the prompt `name` returned
after_prompt(name) ==
    CASE name = "username" -> P("prompt", "destination")
      [] name = "destination" -> P("prompt", "distance")
      [] name = "distance" -> P("prompt", "time")
      [] name = "time" -> P("call", "BookingRequest")

\* a loop that catches TypeError where the validators raise ValueError
except_in_loop_TypeError(type) == type = "TypeError"

\* `except ValueError` of _get_validated_input and _get_cab_choice
except_in_loop(type) == type = "ValueError"

\* run() with `except ValueError` in place of `except Exception`
run_except_ValueErrorOnly(type) ==
    CASE type = "KeyboardInterrupt" -> "except KeyboardInterrupt"
      [] type = "ValueError" -> "except Exception"
      [] OTHER -> "uncaught"

\* the except clause of run() that takes an exception of this type
run_except(type) ==
    CASE type = "KeyboardInterrupt" -> "except KeyboardInterrupt"
      [] type \in {"Exception", "ValueError", "TypeError", "EOFError"} ->
             "except Exception"
      [] OTHER -> "uncaught"

\* an exception of `type` leaves the try block of run() from the current
\* position
Abort(type) ==
    /\ exc' = [type |-> type, at |-> pc]
    /\ CASE run_except(type) = "except KeyboardInterrupt" ->
                /\ output' = Append(output, Ev("goodbye", ""))
                /\ pc' = P("return", "run")
         [] run_except(type) = "except Exception" ->
                /\ output' = output \o << Ev("unexpected_error", ""),
                                          Ev("thanks_for_using", "") >>
                /\ pc' = P("return", "run")
         [] OTHER ->
                /\ output' = output
                /\ pc' = P("raise", "run")

ErrorEvents == {"error", "invalid_choice", "invalid_input", "confirm_error"}

Retries == Cardinality({i \in 1..Len(output) : output[i].event \in ErrorEvents})

InTry == pc.step \in {"print", "prompt", "input", "call"}

Init ==
    /\ pc = P("print", "welcome")
    /\ exc = None
    /\ username = None
    /\ destination = None
    /\ distance = None
    /\ time_str = None
    /\ booking_request = None
    /\ cab_options = <<>>
    /\ selected_option = None
    /\ confirm = "none"
    /\ line = None
    /\ output = <<>>
    /\ price_cache = <<>>
    /\ msg_cache = <<>>
    /\ call = NoCall
    /\ args = None
    /\ cursor = 0
    /\ recalls = 0

engineIdle == << call, args, cursor, recalls >>

locals == << username, destination, distance, time_str >>

\* run: print(WELCOME_MESSAGE)
Welcome ==
    /\ pc = P("print", "welcome")
    /\ output' = Append(output, Ev("welcome", ""))
    /\ pc' = P("print", "details_header")
    /\ UNCHANGED << exc, locals, booking_request, cab_options, selected_option,
                    confirm, line, price_cache, msg_cache, engineIdle >>

\* _collect_booking_details: the two header prints
CollectHeader ==
    /\ pc = P("print", "details_header")
    /\ output' = Append(output, Ev("details_header", ""))
    /\ pc' = P("prompt", "username")
    /\ UNCHANGED << exc, locals, booking_request, cab_options, selected_option,
                    confirm, line, price_cache, msg_cache, engineIdle >>

\* input(prompt): the prompt is written and the read blocks
Prompt(name) ==
    /\ pc = P("prompt", name)
    /\ output' = Append(output, Ev("prompt", name))
    /\ pc' = P("input", name)
    /\ UNCHANGED << exc, locals, booking_request, cab_options, selected_option,
                    confirm, line, price_cache, msg_cache, engineIdle >>

\* _get_validated_input: input() returns `text`; the rest of the iteration
GetValidatedInput(name, text) ==
    LET r == validator_func(name, strip(text))
    IN  /\ pc = P("input", name)
        /\ line' = text
        /\ IF r.ok
           THEN /\ username' = IF name = "username" THEN r.value ELSE username
                /\ destination' =
                       IF name = "destination" THEN r.value ELSE destination
                /\ distance' = IF name = "distance" THEN r.value ELSE distance
                /\ time_str' = IF name = "time" THEN r.value ELSE time_str
                /\ pc' = after_prompt(name)
                /\ UNCHANGED << exc, output >>
           ELSE IF except_in_loop(r.type)
           THEN /\ Retries < MaxRetries
                /\ output' = Append(output, Ev("error", r.message))
                /\ pc' = P("prompt", name)
                /\ UNCHANGED << exc, locals >>
           ELSE /\ Abort(r.type)
                /\ UNCHANGED locals
        /\ UNCHANGED << booking_request, cab_options, selected_option, confirm,
                        price_cache, msg_cache, engineIdle >>

\* _collect_booking_details: return BookingRequest(...)
Construct ==
    LET r == BookingRequest(username, destination, distance, time_str)
    IN  /\ pc = P("call", "BookingRequest")
        /\ IF r.ok
           THEN /\ booking_request' = r.value
                /\ pc' = P("call", "quote")
                /\ UNCHANGED << exc, output >>
           ELSE /\ Abort(r.type)
                /\ UNCHANGED booking_request
        /\ UNCHANGED << locals, cab_options, selected_option, confirm, line,
                        price_cache, msg_cache, engineIdle >>

\* run: get_all_options, the booking summary, get_surcharge_messages and the
\* surcharge lines when there are any
Quote ==
    LET opts == get_all_options(price_cache, booking_request.distance_km,
                                hour_of(booking_request))
        msgs == get_surcharge_messages(msg_cache, booking_request.distance_km,
                                       hour_of(booking_request))
    IN  /\ pc = P("call", "quote")
        /\ cab_options' = opts.result
        /\ price_cache' = opts.cache
        /\ msg_cache' = msgs.cache
        /\ output' = output \o << Ev("booking_summary", "") >>
                        \o (IF msgs.result # <<>>
                            THEN << Ev("surcharge_messages", msgs.result) >>
                            ELSE <<>>)
        /\ pc' = P("print", "cab_options")
        /\ UNCHANGED << exc, locals, booking_request, selected_option, confirm,
                        line, engineIdle >>

\* _get_cab_choice: print(format_cab_options(options))
ShowOptions ==
    /\ pc = P("print", "cab_options")
    /\ output' = Append(output, Ev("cab_options", cab_options))
    /\ pc' = P("prompt", "choice")
    /\ UNCHANGED << exc, locals, booking_request, cab_options, selected_option,
                    confirm, line, price_cache, msg_cache, engineIdle >>

\* _get_cab_choice: input() returns `text`; the rest of the iteration
GetCabChoice(text) ==
    LET n            == int(strip(text))
        choice_index == n.val - 1
    IN  /\ pc = P("input", "choice")
        /\ line' = text
        /\ IF n.ok /\ 0 <= choice_index /\ choice_index < Len(cab_options)
           THEN /\ selected_option' = cab_options[choice_index + 1]
                /\ pc' = P("print", "confirm_summary")
                /\ UNCHANGED << exc, output >>
           ELSE IF n.ok
           THEN /\ Retries < MaxRetries
                /\ output' = Append(output, Ev("invalid_choice", ""))
                /\ pc' = P("prompt", "choice")
                /\ UNCHANGED << exc, selected_option >>
           ELSE IF except_in_loop("ValueError")
           THEN /\ Retries < MaxRetries
                /\ output' = Append(output, Ev("invalid_input", ""))
                /\ pc' = P("prompt", "choice")
                /\ UNCHANGED << exc, selected_option >>
           ELSE /\ Abort("ValueError")
                /\ UNCHANGED selected_option
        /\ UNCHANGED << locals, booking_request, cab_options, confirm,
                        price_cache, msg_cache, engineIdle >>

\* _confirm_booking: the prints before the loop, with the second
\* get_surcharge_messages call
ConfirmSummary ==
    LET msgs == get_surcharge_messages(msg_cache, booking_request.distance_km,
                                       hour_of(booking_request))
    IN  /\ pc = P("print", "confirm_summary")
        /\ msg_cache' = msgs.cache
        /\ output' = output
                        \o << Ev("selected", selected_option),
                              Ev("trip_summary", ""),
                              IF msgs.result # <<>>
                              THEN Ev("trip_surcharges", msgs.result)
                              ELSE Ev("standard_pricing", ""),
                              Ev("total_fare", selected_option.price) >>
        /\ pc' = P("prompt", "confirm")
        /\ UNCHANGED << exc, locals, booking_request, cab_options,
                        selected_option, confirm, line, price_cache,
                        engineIdle >>

\* _confirm_booking: what one iteration makes of the line read: it returns
\* "True" or "False", or goes round "again"
confirm_answer(text) ==
    LET c == lower(strip(text))
    IN  IF c \in { <<"y">>, <<"y", "e", "s">> } THEN "True"
        ELSE IF c \in { <<"n">>, <<"n", "o">> } THEN "False"
        ELSE "again"

\* _confirm_booking: input() returns `text`; the rest of the iteration
ConfirmBooking(text) ==
    /\ pc = P("input", "confirm")
    /\ line' = text
    /\ IF confirm_answer(text) # "again"
       THEN /\ confirm' = confirm_answer(text)
            /\ pc' = P("print", "final_message")
            /\ UNCHANGED output
       ELSE /\ Retries < MaxRetries
            /\ output' = Append(output, Ev("confirm_error", ""))
            /\ pc' = P("prompt", "confirm")
            /\ UNCHANGED confirm
    /\ UNCHANGED << exc, locals, booking_request, cab_options, selected_option,
                    price_cache, msg_cache, engineIdle >>

\* the two branches of run() exchanged
final_message_Swapped(confirmed) ==
    IF confirmed = "True" THEN Ev("booking_cancelled", "")
    ELSE Ev("booking_confirmed", "")

\* run: the first print of the branch taken on _confirm_booking's value
final_message(confirmed) ==
    IF confirmed = "True" THEN Ev("booking_confirmed", "")
    ELSE Ev("booking_cancelled", "")

FinalMessage ==
    /\ pc = P("print", "final_message")
    /\ output' = Append(output, final_message(confirm))
    /\ pc' = P("print", "final_tail")
    /\ UNCHANGED << exc, locals, booking_request, cab_options, selected_option,
                    confirm, line, price_cache, msg_cache, engineIdle >>

\* run: the remaining prints of that branch; run() returns
FinalTail ==
    /\ pc = P("print", "final_tail")
    /\ output' = Append(output, IF confirm = "True"
                                THEN Ev("thanks_for_choosing", "")
                                ELSE Ev("thanks_for_visiting", ""))
    /\ pc' = P("return", "run")
    /\ UNCHANGED << exc, locals, booking_request, cab_options, selected_option,
                    confirm, line, price_cache, msg_cache, engineIdle >>

\* Ctrl-C while run() is inside its try block
KeyboardInterrupt ==
    /\ InTry
    /\ Abort("KeyboardInterrupt")
    /\ UNCHANGED << locals, booking_request, cab_options, selected_option,
                    confirm, line, price_cache, msg_cache, engineIdle >>

\* input() raises EOFError: the terminal was closed
InputEOF ==
    /\ pc.step = "input"
    /\ Abort("EOFError")
    /\ UNCHANGED << locals, booking_request, cab_options, selected_option,
                    confirm, line, price_cache, msg_cache, engineIdle >>

Next ==
    \/ Welcome
    \/ CollectHeader
    \/ \E name \in {"username", "destination", "distance", "time", "choice",
                    "confirm"} : Prompt(name)
    \/ \E i \in 1..Len(CollectPrompts) :
           \E text \in Lines(CollectPrompts[i]) :
               GetValidatedInput(CollectPrompts[i], text)
    \/ Construct
    \/ Quote
    \/ ShowOptions
    \/ \E text \in Lines("choice") : GetCabChoice(text)
    \/ ConfirmSummary
    \/ \E text \in Lines("confirm") : ConfirmBooking(text)
    \/ FinalMessage
    \/ FinalTail
    \/ KeyboardInterrupt
    \/ InputEOF

Spec == Init /\ [][Next]_vars

-----------------------------------------------------------------------------
(* SpecCache: a long-lived engine serving one quote after another, as      *)
(* run() requests them (get_all_options, then get_surcharge_messages),     *)
(* until both caches have filled and evicted                               *)

MaxQuotes == 66

MaxRecalls == 2

CacheDistances == << Num(10, 0), Num(200, 0), Num(250, 0) >>

NPairs == Len(CacheDistances) * Cardinality(Hours)

\* the (distance, hour) of quote number j: the hours of one distance, then
\* the next distance
PairAt(j) ==
    [distance_km |-> CacheDistances[((j % NPairs) \div Cardinality(Hours)) + 1],
     hour        |-> j % Cardinality(Hours)]

InitCache ==
    /\ SessionIdle
    /\ price_cache = <<>>
    /\ msg_cache = <<>>
    /\ call = NoCall
    /\ args = None
    /\ cursor = 0
    /\ recalls = 0

\* the two engine calls of run() for one request
EngineQuote(pair) ==
    LET opts == get_all_options(price_cache, pair.distance_km, pair.hour)
        msgs == get_surcharge_messages(msg_cache, pair.distance_km, pair.hour)
    IN  /\ price_cache' = opts.cache
        /\ msg_cache' = msgs.cache
        /\ call' = [fn |-> "quote", distance_km |-> pair.distance_km,
                    hour |-> pair.hour, result |-> opts.result,
                    messages |-> msgs.result]

\* a request not made before
RequestQuote ==
    /\ cursor < MaxQuotes
    /\ EngineQuote(PairAt(cursor))
    /\ cursor' = cursor + 1
    /\ UNCHANGED << sessionVars, args, recalls >>

\* the first request or the latest one, made again
RepeatQuote ==
    /\ cursor > 0
    /\ recalls < MaxRecalls
    /\ \E j \in {0, cursor - 1} : EngineQuote(PairAt(j))
    /\ recalls' = recalls + 1
    /\ UNCHANGED << sessionVars, args, cursor >>

NextCache ==
    \/ RequestQuote
    \/ RepeatQuote

SpecCache == InitCache /\ [][NextCache]_vars

-----------------------------------------------------------------------------
(* Properties of the pricing engine (SpecPrice)                            *)

PeakHour(h) == h \in {8, 9, 17, 18}

LateNight(h) == h \in {23, 0, 1, 2, 3, 4}

LongDistanceOutOfTown(d) ==
    \/ d.kind = "num" /\ d.m > 200 * Pow10(d.k)
    \/ d.kind = "inf" /\ d.m > 0

CabNamed(n) == CHOOSE c \in CabTypes : c.name = n

\* adjusted base fare + distance * adjusted per-unit rate
ExpectedPrice(cab, d, h) ==
    LET adjustedBase == IF LateNight(h) THEN FMul(cab.base_fare, Num(115, 2))
                        ELSE cab.base_fare
        peakRate     == IF PeakHour(h) THEN FMul(cab.per_km_rate, Num(115, 2))
                        ELSE cab.per_km_rate
        adjustedRate == IF LongDistanceOutOfTown(d)
                        THEN FMul(peakRate, Num(114, 2)) ELSE peakRate
    IN  FAdd(adjustedBase, FMul(d, adjustedRate))

\* C1: for every tier, distance d >= 0 and hour, calculate_price returns
\* adjustedBase + d * adjustedRate: the base fare times 1.15 exactly when
\* LateNight applies, the rate times 1.15 when PeakHour applies and times
\* 1.14 as well when LongDistanceOutOfTown applies, and nothing else.
C1_PriceIsAdjustedBasePlusDistanceTimesRate ==
    (call.fn = "calculate_price" /\ FLe(Zero, call.distance_km)) =>
        call.result = ExpectedPrice(CabNamed(call.cab_type), call.distance_km,
                                    call.hour)

\* hour 8, distance 250, Uber Go: 50 + 250 * (12 * 1.15 * 1.14) = 3983
C1_Witness ==
    /\ call.fn = "calculate_price"
    /\ call.cab_type = "UBER_GO"
    /\ call.hour = 8
    /\ call.distance_km = Num(250, 0)
    /\ call.result = Num(3983, 0)

ExpectedMessages(d, h) ==
    (IF PeakHour(h) THEN <<"peak hours">> ELSE <<>>)
        \o (IF LateNight(h) THEN <<"late night travel">> ELSE <<>>)
        \o (IF LongDistanceOutOfTown(d) THEN <<"outstation location">>
            ELSE <<>>)

\* C2: PeakHour applies iff the hour is 8, 9, 17 or 18, LateNight iff it is
\* 23 or 0..4, LongDistanceOutOfTown iff the distance is strictly above 200;
\* get_surcharge_messages returns one message per applicable rule, in that
\* order, and the empty sequence when none applies.
C2_SurchargeRulesAndMessages ==
    call.fn = "get_surcharge_messages" =>
        call.result = ExpectedMessages(call.distance_km, call.hour)

\* 200.01 at hour 18: two messages; the same hour at 200 gives one
C2_Witness ==
    /\ call.fn = "get_surcharge_messages"
    /\ call.hour = 18
    /\ call.distance_km = Num(20001, 2)
    /\ call.result = <<"peak hours", "outstation location">>
    /\ \E i \in 1..Len(msg_cache) :
           /\ msg_cache[i].key = <<Num(200, 0), 18>>
           /\ msg_cache[i].value = <<"peak hours">>

\* C3: for every tier and fixed hour, calculate_price is non-decreasing in
\* the distance: 0 <= d1 <= d2 gives price(d1) <= price(d2), also across the
\* 200 threshold.  The cache holds the calls made and what each returned.
C3_PriceMonotoneInDistance ==
    \A i, j \in 1..Len(price_cache) :
        LET a == price_cache[i]
            b == price_cache[j]
        IN  ( /\ a.key[1] = b.key[1]
              /\ a.key[3] = b.key[3]
              /\ FLe(Zero, a.key[2])
              /\ FLe(a.key[2], b.key[2]) ) => FLe(a.value, b.value)

\* two calls on the two sides of the threshold, the second strictly dearer
C3_Witness ==
    \E i, j \in 1..Len(price_cache) :
        /\ price_cache[i].key[1] = price_cache[j].key[1]
        /\ price_cache[i].key[2] = Num(200, 0)
        /\ price_cache[j].key[2] = Num(20001, 2)
        /\ FLe(price_cache[i].value, price_cache[j].value)
        /\ price_cache[i].value # price_cache[j].value

-----------------------------------------------------------------------------
(* Properties of the validators (SpecValidate)                             *)

NotANumber == <<"a">>

\* C4: validate_distance returns the parsed number when it is > 0 and fails
\* when it is <= 0, and the failure for a non-positive value is
\* distinguishable from the failure for text that is not a number.
C4_NonPositiveFailureIsDistinct ==
    call.fn = "validate_distance" =>
        LET p == float(call.text)
        IN  /\ (p.ok /\ FGt(p.val, Zero)) =>
                   (call.result.ok /\ call.result.value = p.val)
            /\ (p.ok /\ FLe(p.val, Zero)) =>
                   /\ ~call.result.ok
                   /\ call.result # validate_distance(NotANumber)

DecimalDigits == {"0", "1", "2", "3", "4", "5", "6", "7", "8", "9"}

Unsigned(u) ==
    LET v == strip(u)
    IN  IF v # <<>> /\ v[1] \in {"+", "-"} THEN Tail(v) ELSE v

\* an integer as int() reads one: optional blanks, optional sign, digits
IntegerText(u) ==
    /\ Unsigned(u) # <<>>
    /\ \A i \in 1..Len(Unsigned(u)) : Unsigned(u)[i] \in DecimalDigits

RECURSIVE PlaceValueSum(_, _)
PlaceValueSum(b, i) ==
    IF i > Len(b) THEN 0
    ELSE DigitVal(b[i]) * Pow10(Len(b) - i) + PlaceValueSum(b, i + 1)

IntegerValue(u) ==
    IF strip(u)[1] = "-" THEN 0 - PlaceValueSum(Unsigned(u), 1)
    ELSE PlaceValueSum(Unsigned(u), 1)

ColonsOf(t) == {i \in 1..Len(t) : t[i] = ":"}

HourText(text) ==
    SubSeq(strip(text), 1, SetMin(ColonsOf(strip(text))) - 1)

MinuteText(text) ==
    SubSeq(strip(text), SetMin(ColonsOf(strip(text))) + 1, Len(strip(text)))

\* two colon-separated integers, hour 0..23 and minute 0..59
WellFormedTime(text) ==
    /\ Cardinality(ColonsOf(strip(text))) = 1
    /\ IntegerText(HourText(text))
    /\ IntegerText(MinuteText(text))
    /\ IntegerValue(HourText(text)) \in 0..23
    /\ IntegerValue(MinuteText(text)) \in 0..59

TwoDigits(n) == << DigitChars[(n \div 10) + 1], DigitChars[(n % 10) + 1] >>

\* C5: validate_time succeeds exactly on two colon-separated integers with
\* hour 0..23 and minute 0..59 and then returns the zero-padded HH:MM; it
\* fails on everything else.
C5_TimeAcceptedAndNormalised ==
    call.fn = "validate_time" =>
        IF WellFormedTime(call.text)
        THEN /\ call.result.ok
             /\ call.result.value =
                    TwoDigits(IntegerValue(HourText(call.text))) \o <<":">>
                        \o TwoDigits(IntegerValue(MinuteText(call.text)))
        ELSE ~call.result.ok

\* "9:5" is taken and comes back as "09:05"
C5_Witness ==
    /\ call.fn = "validate_time"
    /\ call.text = <<"9", ":", "5">>
    /\ call.result = Return(<<"0", "9", ":", "0", "5">>)

-----------------------------------------------------------------------------
(* Properties of the caches (SpecCache)                                    *)

\* C9: memoization changes no result: whatever was called before, also once
\* the caches have filled and evicted, each call returns what the uncached
\* computation returns for its arguments.
C9_CachedEqualsUncached ==
    call.fn = "quote" =>
        /\ Len(call.result) = Len(CabType)
        /\ \A i \in 1..Len(call.result) :
               /\ call.result[i].cab_type = CabType[i].name
               /\ call.result[i].price =
                      calculate_price_uncached(CabType[i], call.distance_km,
                                               call.hour)
        /\ call.messages =
               get_surcharge_messages_uncached(call.distance_km, call.hour)

\* both caches are full and have evicted, and the first request was repeated
C9_Witness ==
    /\ call.fn = "quote"
    /\ Len(price_cache) = PRICE_CACHE_MAXSIZE
    /\ Len(msg_cache) = MSG_CACHE_MAXSIZE
    /\ cursor > MSG_CACHE_MAXSIZE
    /\ recalls > 0

-----------------------------------------------------------------------------
(* Properties of the session (Spec)                                        *)

\* a line the prompt `name` does not take
InvalidLine(name, text) ==
    CASE name \in {"username", "destination"} -> strip(text) = <<>>
      [] name = "distance" ->
             ~float(strip(text)).ok \/ FLe(float(strip(text)).val, Zero)
      [] name = "time" -> ~WellFormedTime(text)
      [] name = "choice" ->
             ~IntegerText(text) \/ IntegerValue(text) \notin 1..3
      [] name = "confirm" ->
             lower(strip(text)) \notin
                 { <<"y">>, <<"y", "e", "s">>, <<"n">>, <<"n", "o">> }

\* a step in which input() returned a line (and not Ctrl-C or end of input)
LineRead ==
    /\ pc.step = "input"
    /\ ~(exc' # exc /\ exc'.type \in {"KeyboardInterrupt", "EOFError"})

\* C6: a validation failure is handled inside the prompt where it occurred:
\* an error message is shown, the same prompt is issued again, the values
\* already collected are unchanged, the flow moves to no other stage and the
\* session is not aborted.
C6_ValidationFailureReprompts ==
    [][ (LineRead /\ InvalidLine(pc.of, line')) =>
            /\ Len(output') = Len(output) + 1
            /\ output'[Len(output')].event \in ErrorEvents
            /\ SubSeq(output', 1, Len(output)) = output
            /\ pc' = P("prompt", pc.of)
            /\ exc' = None
            /\ UNCHANGED << username, destination, distance, time_str,
                            booking_request, cab_options, selected_option,
                            confirm >> ]_vars

\* "0" was refused at the distance prompt, the prompt came again, and the
\* name and destination collected before are still there
C6_Witness ==
    /\ pc = P("input", "distance")
    /\ line = <<"0">>
    /\ username = <<"b", "o", "b">>
    /\ destination = <<"x">>
    /\ distance = None
    /\ Len(output) >= 3
    /\ output[Len(output) - 2] = Ev("prompt", "distance")
    /\ output[Len(output) - 1] = Ev("error", "Invalid distance format")
    /\ output[Len(output)] = Ev("prompt", "distance")

\* the stage an output event belongs to: Collect 1, Quote 2, Select 3,
\* Confirm 4, Terminate 5; the farewells of an aborted run 6
StageOfEvent(e) ==
    CASE e.event \in {"welcome", "details_header", "error"} -> 1
      [] e.event = "prompt" ->
             (IF e.detail = "choice" THEN 3
              ELSE IF e.detail = "confirm" THEN 4 ELSE 1)
      [] e.event \in {"booking_summary", "surcharge_messages"} -> 2
      [] e.event \in {"cab_options", "invalid_choice", "invalid_input"} -> 3
      [] e.event \in {"selected", "trip_summary", "trip_surcharges",
                      "standard_pricing", "total_fare", "confirm_error"} -> 4
      [] e.event \in {"booking_confirmed", "booking_cancelled",
                      "thanks_for_choosing", "thanks_for_visiting"} -> 5
      [] OTHER -> 6

\* the stage a position of run() belongs to
StageOfPc ==
    CASE pc.step = "return" -> 5
      [] pc.of \in {"final_message", "final_tail"} -> 5
      [] pc.of \in {"confirm_summary", "confirm"} -> 4
      [] pc.of \in {"cab_options", "choice"} -> 3
      [] pc.of = "quote" -> 2
      [] OTHER -> 1

FinalMessages ==
    {i \in 1..Len(output) :
        output[i].event \in {"booking_confirmed", "booking_cancelled"}}

Farewells ==
    {i \in 1..Len(output) : output[i].event \in {"goodbye", "unexpected_error"}}

\* C7: a run that is not interrupted goes through Collect, Quote, Select,
\* Confirm, Terminate in that order and never back, and ends with exactly
\* one final message: booking-confirmed iff the accepted answer was y/yes in
\* any case, booking-cancelled iff it was n/no; no prompt follows it.
C7_StagesInOrderOneFinalMessage ==
    exc = None =>
        /\ \A i, j \in 1..Len(output) :
               i <= j => StageOfEvent(output[i]) <= StageOfEvent(output[j])
        /\ \A i \in 1..Len(output) : StageOfEvent(output[i]) <= StageOfPc
        /\ pc.step = "return" =>
               /\ {StageOfEvent(output[i]) : i \in 1..Len(output)} = 1..5
               /\ Cardinality(FinalMessages) = 1
               /\ \A i \in FinalMessages :
                      /\ output[i].event = "booking_confirmed" <=>
                             lower(strip(line)) \in
                                 { <<"y">>, <<"y", "e", "s">> }
                      /\ output[i].event = "booking_cancelled" <=>
                             lower(strip(line)) \in { <<"n">>, <<"n", "o">> }
                      /\ \A j \in i..Len(output) : output[j].event # "prompt"

\* a run ended on "YES" after a refused answer, with the confirmed message
C7_Witness ==
    /\ pc.step = "return"
    /\ exc = None
    /\ line = <<"Y", "E", "S">>
    /\ \E i \in 1..Len(output) : output[i].event = "confirm_error"
    /\ \E i \in 1..Len(output) : output[i].event = "booking_confirmed"

\* the farewell of the except clause that took the exception ends the output
FarewellIsLast ==
    /\ Cardinality(Farewells) = 1
    /\ IF exc.type = "KeyboardInterrupt"
       THEN output[Len(output)] = Ev("goodbye", "")
       ELSE /\ output[Len(output) - 1] = Ev("unexpected_error", "")
            /\ output[Len(output)] = Ev("thanks_for_using", "")

\* C8 as stated: Ctrl-C or an unclassified failure at any prompt or stage
\* of run() aborts the flow: the farewell is printed, no prompt follows,
\* neither booking-confirmed nor booking-cancelled is emitted, and run()
\* returns normally.
C8_AbortEmitsNoFinalMessage ==
    exc # None =>
        /\ pc = P("return", "run")
        /\ FarewellIsLast
        /\ FinalMessages = {}

\* C8 as amended: the same, except that an interruption arriving between
\* the final prints of run() finds the final message already printed; the
\* farewell then follows it.
C8_AbortEndsWithFarewell ==
    exc # None =>
        /\ pc = P("return", "run")
        /\ FarewellIsLast
        /\ exc.at # P("print", "final_tail") => FinalMessages = {}
        /\ \A i \in FinalMessages : i < Len(output)

\* end of input inside the re-prompt loop of the distance prompt
C8_Witness ==
    /\ exc # None
    /\ exc.type = "EOFError"
    /\ exc.at = P("input", "distance")
    /\ pc = P("return", "run")
    /\ \E i \in 1..Len(output) : output[i].event = "error"
    /\ output[Len(output)] = Ev("thanks_for_using", "")

\* C10: every BookingRequest that exists has distance > 0, hour 0..23,
\* minute 0..59 and a non-blank username and destination.
C10_RequestInvariant ==
    booking_request # None =>
        /\ FGt(booking_request.distance_km, Zero)
        /\ WellFormedTime(booking_request.booking_time)
        /\ strip(booking_request.username) # <<>>
        /\ strip(booking_request.destination) # <<>>

=============================================================================
